---- MODULE Spec2Model ----
(***************************************************************************)
(* Model of webpack's default stats plugins:                               *)
(*   - DefaultStatsFactoryPlugin  (extraction of the report tree)          *)
(*   - DefaultStatsPrinterPlugin  (rendering of the report tree to text)   *)
(*                                                                         *)
(* JavaScript strings are TLA+ strings (Len, \o and SubSeq act on them).   *)
(* JavaScript values of mixed type are tagged records: [str |-> "a"],      *)
(* [num |-> 0], [bool |-> TRUE], [undef |-> TRUE], [null |-> TRUE],        *)
(* [obj |-> r], [arr |-> s].                                               *)
(***************************************************************************)
EXTENDS Integers, Sequences, FiniteSets, TLC

VARIABLES
    printCall,      \* the printer-side call made: [op |-> ..., arguments]
    printResult,    \* [done |-> FALSE] or [done |-> TRUE, value |-> ...]
    statsOptions,   \* the Options the stats factory was requested with
    compilation,    \* the build session being reported
    statsFactory,   \* the StatsFactory and the taps registered on its hooks
    filtered,       \* names rejected by other plugins' taps on the filter hooks
    pc,             \* "new" -> "tapped" -> "created" (or "off")
    report          \* the report tree returned by create()

printerVars == <<printCall, printResult>>

factoryVars == <<statsOptions, compilation, statsFactory, filtered, pc, report>>

vars == <<printCall, printResult, statsOptions, compilation, statsFactory, filtered,
          pc, report>>

----------------------------------------------------------------------------
(* Generic helpers                                                         *)

Range(s) == {s[i] : i \in 1..Len(s)}

IsDistinct(s) == \A i, j \in 1..Len(s) : i # j => s[i] # s[j]

\* All sequences of distinct elements of S of length at most n.
DistinctSeqs(S, n) ==
    {s \in UNION {[1..k -> S] : k \in 0..n} : IsDistinct(s)}

\* All sequences over S of length at most n.
SeqsUpTo(S, n) == UNION {[1..k -> S] : k \in 0..n}

IndexOf(s, e) == CHOOSE i \in 1..Len(s) : s[i] = e

MaxOf(S) == CHOOSE m \in S : \A x \in S : x <= m

RECURSIVE Spaces(_)
Spaces(n) == IF n <= 0 THEN "" ELSE " " \o Spaces(n - 1)

\* Array.prototype.join on an array of strings
RECURSIVE JoinStrings(_, _)
JoinStrings(items, sep) ==
    IF Len(items) = 0 THEN ""
    ELSE IF Len(items) = 1 THEN items[1]
    ELSE items[1] \o sep \o JoinStrings(Tail(items), sep)

\* String.prototype.endsWith
EndsWith(s, suffix) ==
    /\ Len(s) >= Len(suffix)
    /\ SubSeq(s, Len(s) - Len(suffix) + 1, Len(s)) = suffix

\* the characters from..to of s (1-based, inclusive), clamped to s
Slice(s, from, to) ==
    LET lo == IF from < 1 THEN 1 ELSE from
        hi == IF to > Len(s) THEN Len(s) ELSE to
    IN IF lo > hi THEN "" ELSE SubSeq(s, lo, hi)

\* number of occurrences of the one-character string c in s
RECURSIVE CountChar(_, _)
CountChar(s, c) ==
    IF Len(s) = 0 THEN 0
    ELSE (IF SubSeq(s, 1, 1) = c THEN 1 ELSE 0) + CountChar(SubSeq(s, 2, Len(s)), c)

----------------------------------------------------------------------------
(* JavaScript values                                                       *)

Undefined == [undef |-> TRUE]
Null == [null |-> TRUE]
Str(s) == [str |-> s]
Num(n) == [num |-> n]
Bool(b) == [bool |-> b]

IsStr(v) == "str" \in DOMAIN v
IsNum(v) == "num" \in DOMAIN v
IsBool(v) == "bool" \in DOMAIN v
IsUndefined(v) == "undef" \in DOMAIN v
IsNull(v) == "null" \in DOMAIN v
IsArray(v) == "arr" \in DOMAIN v
IsObject(v) == "obj" \in DOMAIN v

\* ToBoolean
Truthy(v) ==
    IF IsBool(v) THEN v.bool
    ELSE IF IsNum(v) THEN v.num # 0
    ELSE IF IsStr(v) THEN v.str # ""
    ELSE IF IsUndefined(v) \/ IsNull(v) THEN FALSE
    ELSE TRUE

DigitString == <<"0", "1", "2", "3", "4", "5", "6", "7", "8", "9">>

RECURSIVE NatToString(_)
NatToString(n) ==
    IF n < 10 THEN DigitString[n + 1]
    ELSE NatToString(n \div 10) \o DigitString[(n % 10) + 1]

\* `${v}` for a scalar
JsToString(v) ==
    IF IsStr(v) THEN v.str
    ELSE IF IsNum(v) THEN NatToString(v.num)
    ELSE IF IsBool(v) THEN (IF v.bool THEN "true" ELSE "false")
    ELSE IF IsNull(v) THEN "null"
    ELSE "undefined"

\* === on scalars
StrictEquals(a, b) == a = b

----------------------------------------------------------------------------
(* DefaultStatsPrinterPlugin: print context                                *)

\* stand-in for the escape character U+001B (one character, as in the source)
ESC == "#"

AVAILABLE_COLORS ==
    [bold |-> ESC \o "[1m",
     yellow |-> ESC \o "[1m" \o ESC \o "[33m",
     red |-> ESC \o "[1m" \o ESC \o "[31m",
     green |-> ESC \o "[1m" \o ESC \o "[32m",
     cyan |-> ESC \o "[1m" \o ESC \o "[36m",
     magenta |-> ESC \o "[1m" \o ESC \o "[35m"]

\* context[color] as installed by the print tap for "compilation";
\* ctx.colors is options.colors (a boolean here)
Colorize(ctx, color, str) ==
    IF ctx.colors
    THEN AVAILABLE_COLORS[color] \o str \o ESC \o "[39m" \o ESC \o "[22m"
    ELSE str

formatModuleId(id) == "[" \o JsToString(id) \o "]"

formatFlag(flag) == "[" \o flag \o "]"

formatChunkId(ctx, id) == "{" \o Colorize(ctx, "yellow", JsToString(id)) \o "}"

\* SIMPLE_PRINTERS, the entries for fields of a module; the result is a
\* JS value (a string or undefined)
SIMPLE_PRINTERS_module(element, value, ctx) ==
    CASE element = "id" -> Str(formatModuleId(value))
      [] element = "name" -> value
      [] element = "identifier" -> value
      [] element = "depth" -> Str(formatFlag("depth " \o JsToString(value)))
      [] element = "cacheable" ->
            IF Truthy(value) THEN Undefined
            ELSE Str(Colorize(ctx, "red", formatFlag("cacheable")))
      [] element = "built" ->
            IF Truthy(value) THEN Str(Colorize(ctx, "green", formatFlag("built")))
            ELSE Undefined
      [] element = "profile" -> Undefined
      [] OTHER -> Undefined

PREFERED_ORDERS ==
    [compilation |->
        <<"hash", "version", "time", "builtAt", "env", "publicPath", "assets",
          "filteredAssets", "entrypoints", "namedChunkGroups", "chunks",
          "warnings", "errors", "children", "needAdditionalPass">>,
     asset |->
        <<"name", "size", "chunks", "emitted", "isOverSizeLimit", "chunkNames">>,
     chunkGroup |->
        <<"kind!", "name", "isOverSizeLimit", "separator!", "assets", "childAssets">>,
     module |->
        <<"id", "name", "identifier", "sizes", "chunks", "depth", "cacheable",
          "orphan", "runtime", "optional", "built", "assets", "failed",
          "warnings", "errors", "providedExports", "usedExports",
          "optimizationBailout", "reasons", "profile", "modules">>]

----------------------------------------------------------------------------
(* DefaultStatsPrinterPlugin: createOrder                                  *)

\* mutant: the second loop appends every original element again
createOrderNoUsedSet(array, preferedOrder) ==
    LET set == Range(array)
        first == SelectSeq(preferedOrder, LAMBDA e : EndsWith(e, "!") \/ e \in set)
    IN first \o array

\* the value left in (and returned as) `array`
createOrder(array, preferedOrder) ==
    LET originalArray == array
        set == Range(array)
        first == SelectSeq(preferedOrder, LAMBDA e : EndsWith(e, "!") \/ e \in set)
        usedSet == Range(first)
        rest == SelectSeq(originalArray, LAMBDA e : e \notin usedSet)
    IN first \o rest

----------------------------------------------------------------------------
(* DefaultStatsPrinterPlugin: table                                        *)

\* colSizes[col] after the first pair of loops
colSizes(array, col) ==
    MaxOf({0} \cup {Len(array[row][col]) : row \in 1..Len(array)})

\* `splitter || "  "`; the optional argument is <<>> when omitted
splitterOrDefault(splitter) ==
    IF Len(splitter) = 1 /\ splitter[1] # "" THEN splitter[1] ELSE "  "

\* mutant: the separator is appended after zero-width columns too
tableCellNoZeroCheck(array, align, splitter, row, col) ==
    LET cols == Len(array[1])
        value == array[row][col]
        l == Len(value)
        padding ==
            IF col # cols /\ l < colSizes(array, col)
            THEN Spaces(colSizes(array, col) - l) ELSE ""
    IN (IF align[col] = "l" THEN value ELSE "")
       \o padding
       \o (IF align[col] = "r" THEN value ELSE "")
       \o (IF col + 1 <= cols THEN splitterOrDefault(splitter) ELSE "")

\* what one pass of the inner loop appends to str (col is 1-based here)
tableCell(array, align, splitter, row, col) ==
    LET cols == Len(array[1])
        value == array[row][col]
        l == Len(value)
        padding ==
            IF col # cols /\ l < colSizes(array, col)
            THEN Spaces(colSizes(array, col) - l) ELSE ""
    IN (IF align[col] = "l" THEN value ELSE "")
       \o padding
       \o (IF align[col] = "r" THEN value ELSE "")
       \o (IF col + 1 <= cols /\ colSizes(array, col) # 0
           THEN splitterOrDefault(splitter) ELSE "")

RECURSIVE tableRow(_, _, _, _, _)
tableRow(array, align, splitter, row, col) ==
    IF col > Len(array[1]) THEN ""
    ELSE tableCell(array, align, splitter, row, col)
         \o tableRow(array, align, splitter, row, col + 1)

\* table(array, align, splitter): [threw |-> TRUE] when array[0] is undefined
\* (the read of array[0].length), else the joined lines
table(array, align, splitter) ==
    IF Len(array) = 0 THEN [threw |-> TRUE]
    ELSE Str(JoinStrings([row \in 1..Len(array) |->
                              tableRow(array, align, splitter, row, 1)], "\n"))

----------------------------------------------------------------------------
(* DefaultStatsPrinterPlugin: element and item joiners                     *)

\* a report node is [keys |-> own field names in insertion order,
\*                   val  |-> the value of each field]
Get(node, field) ==
    IF field \in Range(node.keys) THEN node.val[field] ELSE Undefined

\* items.map(item => item.content).filter(Boolean).join(" ")
joinOneLine(items) ==
    LET contents == [i \in 1..Len(items) |-> items[i].content]
        kept == SelectSeq(contents, Truthy)
    IN JoinStrings([i \in 1..Len(kept) |-> kept[i].str], " ")

\* mutant: the "id" case does not compare module.id with module.name
RECURSIVE moduleJoinerFilterIgnoringId(_, _, _, _)
moduleJoinerFilterIgnoringId(items, module, i, hasName) ==
    IF i > Len(items) THEN <<>>
    ELSE
    LET item == items[i]
        isNameLike == item.element \in {"name", "identifier"}
        dropped == isNameLike /\ hasName
        hasNameAfter ==
            IF isNameLike /\ ~hasName /\ Truthy(item.content) THEN TRUE
            ELSE hasName
    IN (IF dropped THEN <<>> ELSE <<item>>)
       \o moduleJoinerFilterIgnoringId(items, module, i + 1, hasNameAfter)

\* the callback of items.filter in SIMPLE_ELEMENT_JOINERS.module, run over
\* items[i..]; hasName is the closure variable on entry
RECURSIVE moduleJoinerFilterFrom(_, _, _, _)
moduleJoinerFilterFrom(items, module, i, hasName) ==
    IF i > Len(items) THEN <<>>
    ELSE
    LET item == items[i]
        isNameLike == item.element \in {"name", "identifier"}
        dropped == isNameLike /\ hasName
        hasNameAfter ==
            IF item.element = "id"
            THEN hasName \/ StrictEquals(Get(module, "id"), Get(module, "name"))
            ELSE IF isNameLike /\ ~hasName /\ Truthy(item.content) THEN TRUE
            ELSE hasName
    IN (IF dropped THEN <<>> ELSE <<item>>)
       \o moduleJoinerFilterFrom(items, module, i + 1, hasNameAfter)

moduleJoinerFilter(items, module, i, hasName) ==
    moduleJoinerFilterFrom(items, module, i, hasName)

\* SIMPLE_ELEMENT_JOINERS.module(items, { module })
SIMPLE_ELEMENT_JOINERS_module(items, module) ==
    joinOneLine(moduleJoinerFilter(items, module, 1, FALSE))

\* the printElements tap for "compilation.assets[].asset": one table row
printElements_asset(elements) ==
    LET elementsMap(name) ==
            IF \E i \in 1..Len(elements) : elements[i].element = name
            THEN elements[MaxOf({i \in 1..Len(elements) :
                                     elements[i].element = name})].content
            ELSE Undefined
        cell(name) ==
            IF Truthy(elementsMap(name)) THEN elementsMap(name).str ELSE ""
    IN <<cell("name"), cell("size"), cell("chunks"), cell("emitted"),
         cell("isOverSizeLimit"), cell("chunkNames")>>

\* mutant: the empty list is not singled out
printItems_assets_NoEmptyCheck(items, ctx) ==
    LET header == <<"Asset", "Size", "Chunks", "", "", "Chunk Names">>
        bolded == [i \in 1..Len(header) |->
                      IF header[i] # "" THEN Colorize(ctx, "bold", header[i])
                      ELSE header[i]]
    IN table(<<bolded>> \o items, <<"r", "r", "r", "l", "l", "l">>, <<>>)

\* the printItems tap for "compilation.assets"
printItems_assets(items, ctx) ==
    IF Len(items) = 0 THEN Undefined
    ELSE
    LET header == <<"Asset", "Size", "Chunks", "", "", "Chunk Names">>
        bolded == [i \in 1..Len(header) |->
                      IF header[i] # "" THEN Colorize(ctx, "bold", header[i])
                      ELSE header[i]]
    IN table(<<bolded>> \o items, <<"r", "r", "r", "l", "l", "l">>, <<>>)

\* StatsPrinter.print on an object node of item name "module": the keys are
\* sorted by the sortElements tap, each field is printed, and the
\* printElements tap joins them
printedElements_module(node, ctx) ==
    LET elements == createOrder(node.keys, PREFERED_ORDERS.module)
    IN [i \in 1..Len(elements) |->
           [element |-> elements[i],
            content |-> SIMPLE_PRINTERS_module(elements[i], Get(node, elements[i]), ctx)]]

print_module(node, ctx) ==
    Str(SIMPLE_ELEMENT_JOINERS_module(printedElements_module(node, ctx), node))

----------------------------------------------------------------------------
(* DefaultStatsFactoryPlugin: the catalog and its registration             *)

\* An Options object is [obj |-> f], f a function from option names to JS
\* values; options[name] of a missing name is undefined.
OptGet(options, name) ==
    IF IsObject(options) /\ name \in DOMAIN options.obj
    THEN options.obj[name] ELSE Undefined

\* A type path is the sequence of its "."-separated parts.
TypeDot(type, field) == Append(type, field)

\* `${type}[]`
TypeItems(type) ==
    [i \in 1..Len(type) |-> IF i = Len(type) THEN type[i] \o "[]" ELSE type[i]]

IsSuffix(key, type) ==
    /\ Len(key) <= Len(type)
    /\ SubSeq(type, Len(type) - Len(key) + 1, Len(type)) = key

\* Object.keys(SIMPLE_EXTRACTORS) and, for each, the keys of the sub-config
SIMPLE_EXTRACTORS_hooks ==
    <<"compilation", "asset", "chunkGroup", "module", "moduleIssuer", "chunk">>

SIMPLE_EXTRACTORS_options ==
    [compilation |->
        <<"_", "hash", "version", "timings", "builtAt", "publicPath",
          "outputPath", "assets", "chunks", "modules", "entrypoints",
          "chunkGroups">>,
     asset |-> <<"_", "performance">>,
     chunkGroup |-> <<"_">>,
     module |->
        <<"_", "orphanModules", "moduleAssets", "reasons", "usedExports",
          "providedExports", "optimizationBailout", "depth", "nestedModules",
          "source">>,
     moduleIssuer |-> <<"_">>,
     chunk |-> <<"chunkModules", "chunkRootModules">>]

RECURSIVE FlattenSeqs(_)
FlattenSeqs(ss) ==
    IF Len(ss) = 0 THEN <<>> ELSE Head(ss) \o FlattenSeqs(Tail(ss))

\* mutant: an option is taken as set whenever it is not undefined
iterateConfigDefinedOnly(config, options) ==
    FlattenSeqs([h \in 1..Len(SIMPLE_EXTRACTORS_hooks) |->
        LET hookFor == SIMPLE_EXTRACTORS_hooks[h]
            subConfig == config[hookFor]
            chosen == SelectSeq(subConfig, LAMBDA option :
                          option = "_" \/ ~IsUndefined(OptGet(options, option)))
        IN [i \in 1..Len(chosen) |-> [for |-> hookFor, fn |-> <<hookFor, chosen[i]>>]]])

\* iterateConfig(config, options, fn): the calls fn(hookFor, subConfig[option])
\* it makes, in order; an extractor is named by <<hookFor, option>>
iterateConfig(config, options) ==
    FlattenSeqs([h \in 1..Len(SIMPLE_EXTRACTORS_hooks) |->
        LET hookFor == SIMPLE_EXTRACTORS_hooks[h]
            subConfig == config[hookFor]
            chosen == SelectSeq(subConfig, LAMBDA option :
                          option = "_" \/ Truthy(OptGet(options, option)))
        IN [i \in 1..Len(chosen) |-> [for |-> hookFor, fn |-> <<hookFor, chosen[i]>>]]])

ITEM_NAMES ==
    {[key |-> <<"compilation", "children[]">>, name |-> "compilation"],
     [key |-> <<"compilation", "modules[]">>, name |-> "module"],
     [key |-> <<"compilation", "entrypoints[]">>, name |-> "chunkGroup"],
     [key |-> <<"compilation", "namedChunkGroups[]">>, name |-> "chunkGroup"],
     [key |-> <<"chunk", "modules[]">>, name |-> "module"],
     [key |-> <<"chunk", "rootModules[]">>, name |-> "module"],
     [key |-> <<"compilation", "chunks[]">>, name |-> "chunk"],
     [key |-> <<"compilation", "assets[]">>, name |-> "asset"],
     [key |-> <<"module", "issuerPath[]">>, name |-> "moduleIssuer"]}

MERGER ==
    {<<"compilation", "entrypoints">>, <<"compilation", "namedChunkGroups">>}

\* field `field` of an object value [obj |-> f]
ObjGet(object, field) ==
    IF IsObject(object) /\ field \in DOMAIN object.obj
    THEN object.obj[field] ELSE Undefined

\* object[field] = value
Put(object, field, value) ==
    [object EXCEPT !.obj =
        [k \in (DOMAIN object.obj) \cup {field} |->
            IF k = field THEN value ELSE object.obj[k]]]

EmptyFields == [k \in {} |-> Undefined]

RECURSIVE mergeFirstWinsUpTo(_, _)
mergeFirstWinsUpTo(items, n) ==
    IF n = 0 THEN EmptyFields
    ELSE LET obj == mergeFirstWinsUpTo(items, n - 1)
             item == items[n]
             key == JsToString(ObjGet(item, "name"))
         IN [k \in DOMAIN obj \cup {key} |->
                IF k = key /\ key \notin DOMAIN obj THEN item ELSE obj[k]]

\* mutant: the first item stored under a name is kept
mergeToObjectFirstWins(items) == [obj |-> mergeFirstWinsUpTo(items, Len(items))]

\* the loop of mergeToObject over items[1..n]
RECURSIVE mergeToObjectUpTo(_, _)
mergeToObjectUpTo(items, n) ==
    IF n = 0 THEN EmptyFields
    ELSE LET obj == mergeToObjectUpTo(items, n - 1)
             item == items[n]
             key == JsToString(ObjGet(item, "name"))
         IN [k \in DOMAIN obj \cup {key} |-> IF k = key THEN item ELSE obj[k]]

\* mergeToObject(items): an object keyed by item.name
mergeToObject(items) == [obj |-> mergeToObjectUpTo(items, Len(items))]

----------------------------------------------------------------------------
(* Stats factories: creation and the taps of DefaultStatsFactoryPlugin     *)

\* Compilation.createStatsOptions: an Options object is taken as it is, any
\* other value is taken as the name of a preset
createStatsOptions(optionsOrPreset) ==
    IF IsObject(optionsOrPreset) THEN optionsOrPreset
    ELSE [obj |-> [k \in {"preset"} |-> optionsOrPreset]]

\* new StatsFactory(): no taps on any hook.  `from` tells what the factory
\* was made for (history only)
NewStatsFactory(from) ==
    [from |-> from,
     options |-> Undefined,
     extract |-> <<>>,
     getItemName |-> {},
     merge |-> {},
     getItemFactory |-> "none",
     childFactory |-> Undefined]

ChildrenTap == [for |-> "compilation", fn |-> <<"compilation", "children">>]

RECURSIVE createStatsFactory(_, _)

\* mutant: a value that is not an Options object is treated like `true`
statsFactoryTapStrict(stats, options) ==
    LET children == OptGet(options, "children")
        mode == IF ~Truthy(children) THEN "none"
                ELSE IF IsArray(children) THEN "array"
                ELSE IF IsObject(children) THEN "single"
                ELSE "none"
    IN [stats EXCEPT
          !.options = options,
          !.extract = @ \o iterateConfig(SIMPLE_EXTRACTORS_options, options)
                        \o (IF Truthy(children) THEN <<ChildrenTap>> ELSE <<>>),
          !.getItemName = @ \cup ITEM_NAMES,
          !.merge = @ \cup MERGER,
          !.getItemFactory = mode,
          !.childFactory =
              IF mode = "single"
              THEN createStatsFactory(createStatsOptions(children),
                                      [kind |-> "children", index |-> -1,
                                       value |-> children])
              ELSE Undefined]

\* the tap on compilation.hooks.statsFactory: (stats, options, context)
statsFactoryTap(stats, options) ==
    LET children == OptGet(options, "children")
        mode == IF ~Truthy(children) THEN "none"
                ELSE IF IsArray(children) THEN "array"
                ELSE IF children # Bool(TRUE) THEN "single"
                ELSE "none"
    IN [stats EXCEPT
          !.options = options,
          !.extract = @ \o iterateConfig(SIMPLE_EXTRACTORS_options, options)
                        \o (IF Truthy(children) THEN <<ChildrenTap>> ELSE <<>>),
          !.getItemName = @ \cup ITEM_NAMES,
          !.merge = @ \cup MERGER,
          !.getItemFactory = mode,
          !.childFactory =
              IF mode = "single"
              THEN createStatsFactory(createStatsOptions(children),
                                      [kind |-> "children", index |-> -1,
                                       value |-> children])
              ELSE Undefined]

\* Compilation.createStatsFactory(options): a new factory on which the
\* statsFactory hook has been called
createStatsFactory(options, from) ==
    statsFactoryTap(NewStatsFactory(from), options)

ChildFactoryKey == <<"compilation", "children[]", "compilation">>

\* mutant: the bound on the index admits idx = length
getItemFactoryTapOffByOne(stats, innerType, idx) ==
    IF ~IsSuffix(ChildFactoryKey, innerType) THEN Undefined
    ELSE IF stats.getItemFactory = "array"
    THEN LET children == OptGet(stats.options, "children").arr
         IN IF idx + 1 < Len(children)
            THEN createStatsFactory(createStatsOptions(children[idx + 1]),
                                    [kind |-> "children[]", index |-> idx,
                                     value |-> children[idx + 1]])
            ELSE Undefined
    ELSE IF stats.getItemFactory = "single" THEN stats.childFactory
    ELSE Undefined

\* the taps on getItemFactory.for("compilation.children[].compilation");
\* idx is context._index
getItemFactoryTap(stats, innerType, idx) ==
    IF ~IsSuffix(ChildFactoryKey, innerType) THEN Undefined
    ELSE IF stats.getItemFactory = "array"
    THEN LET children == OptGet(stats.options, "children").arr
         IN IF idx < Len(children)
            THEN createStatsFactory(createStatsOptions(children[idx + 1]),
                                    [kind |-> "children[]", index |-> idx,
                                     value |-> children[idx + 1]])
            ELSE Undefined
    ELSE IF stats.getItemFactory = "single" THEN stats.childFactory
    ELSE Undefined

\* the getItemName hook for `${type}[]`: "" when no tap answers
getItemName(stats, itemsType) ==
    LET hits == {e \in stats.getItemName : IsSuffix(e.key, itemsType)}
    IN IF hits = {} THEN ""
       ELSE (CHOOSE e \in hits : \A o \in hits : Len(o.key) <= Len(e.key)).name

----------------------------------------------------------------------------
(* StatsFactory.create and the extractors of SIMPLE_EXTRACTORS             *)

\* An object node of the report is
\*   [obj |-> its fields, applied |-> the extractors run on it, in order,
\*    by |-> the factory that built it, type |-> its type path,
\*    requested |-> for each filtered-count field, the number of items that
\*                  were handed to create()]
\* (applied, by, type and requested are history, not part of the report).
\* NaN is [nan |-> TRUE].

NaN == [nan |-> TRUE]

\* value.length
LengthOf(value) == IF IsArray(value) THEN Num(Len(value.arr)) ELSE Undefined

\* a - b on numbers
Minus(a, b) == IF IsNum(a) /\ IsNum(b) THEN Num(a.num - b.num) ELSE NaN

JsArray(seq) == [arr |-> seq]

\* ids.sort(compareIds) on a list of distinct numbers
RECURSIVE SortNums(_)
SortNums(S) ==
    IF S = {} THEN <<>>
    ELSE LET m == CHOOSE x \in S : \A y \in S : x <= y
         IN <<m>> \o SortNums(S \ {m})

\* the order of < on the chunk names of the model
ChunkNameOrder == <<"child", "main", "vendor">>

RECURSIVE SortNames(_)
SortNames(S) ==
    IF S = {} THEN <<>>
    ELSE LET m == CHOOSE x \in S :
                     \A y \in S : IndexOf(ChunkNameOrder, x) <= IndexOf(ChunkNameOrder, y)
         IN <<m>> \o SortNames(S \ {m})

MapSeq(seq, Op(_)) == [i \in 1..Len(seq) |-> Op(seq[i])]

\* moduleGraph.getIssuer(module): the issuing module, if any
HasIssuer(comp, module) ==
    \E m \in Range(comp.modules) : m.name = module.issuer

getIssuer(comp, module) ==
    CHOOSE m \in Range(comp.modules) : m.name = module.issuer

\* mutant: path.reverse() is left out
RECURSIVE issuerWalkNoReverse(_, _)
issuerWalkNoReverse(comp, module) ==
    IF ~HasIssuer(comp, module) THEN <<>>
    ELSE LET issuer == getIssuer(comp, module)
         IN <<issuer>> \o issuerWalkNoReverse(comp, issuer)

\* the loop `while (current) { path.push(current); ... }` started at the
\* module's issuer, followed by path.reverse()
RECURSIVE issuerWalk(_, _)
issuerWalk(comp, module) ==
    IF ~HasIssuer(comp, module) THEN <<>>
    ELSE LET issuer == getIssuer(comp, module)
         IN issuerWalk(comp, issuer) \o <<issuer>>

RECURSIVE createArray(_, _, _, _)
RECURSIVE createObject(_, _, _, _)
RECURSIVE runExtract(_, _, _, _, _, _)
RECURSIVE applyExtractor(_, _, _, _, _, _)

\* mutant: the filtered count is taken before create() has run
extractWithCountBefore(stats, object, field, countField, type, array, ctx) ==
    LET created == createArray(stats, TypeDot(type, field), array, ctx)
        before == Put(object, countField,
                      Minus(Num(Len(array)), LengthOf(ObjGet(object, field))))
    IN [Put(before, field, created) EXCEPT
          !.requested = (countField :> Len(array)) @@ @]

\* object[field] = factory.create(`${type}.${field}`, array, context);
\* object[countField] = array.length - object[field].length;
extractWithCount(stats, object, field, countField, type, array, ctx) ==
    LET created == createArray(stats, TypeDot(type, field), array, ctx)
        withField == Put(object, field, created)
    IN [Put(withField, countField,
            Minus(Num(Len(array)), LengthOf(ObjGet(withField, field))))
        EXCEPT !.requested = (countField :> Len(array)) @@ @]

chunkIds(chunks) == MapSeq(chunks, LAMBDA c : c.id)

chunkGroupFiles(comp, group) ==
    FlattenSeqs([i \in 1..Len(group.chunks) |->
        LET c == CHOOSE c \in Range(comp.chunks) : c.id = group.chunks[i]
        IN MapSeq(c.files, Str)])

\* StatsFactory.create(type, data, context) for an array: each item that the
\* filter hooks keep is built by the item factory (this factory unless a
\* getItemFactory tap answers), then the merge hook is run
createArray(stats, type, items, ctx) ==
    LET kept == SelectSeq(items, LAMBDA item : item.name \notin ctx.excluded)
        itemsType == TypeItems(type)
        itemName == getItemName(stats, itemsType)
        innerType == IF itemName # "" THEN Append(itemsType, itemName) ELSE itemsType
        results ==
            [i \in 1..Len(kept) |->
                LET itemCtx ==
                        [ctx EXCEPT !.index = i - 1,
                                    !.compilation =
                                        IF itemName = "compilation" THEN kept[i] ELSE @]
                    override == getItemFactoryTap(stats, innerType, itemCtx.index)
                    itemFactory == IF IsUndefined(override) THEN stats ELSE override
                IN createObject(itemFactory, innerType, kept[i], itemCtx)]
    IN IF \E key \in stats.merge : IsSuffix(key, type)
       THEN mergeToObject(results)
       ELSE JsArray(results)

\* StatsFactory.create(type, data, context) for one object: the extract taps
\* of the type's hook run in registration order on one fresh object
createObject(stats, type, data, ctx) ==
    LET object == [obj |-> EmptyFields, applied |-> <<>>,
                   by |-> [from |-> stats.from, options |-> stats.options],
                   type |-> type, requested |-> EmptyFields]
        taps == SelectSeq(stats.extract, LAMBDA tap : IsSuffix(<<tap.for>>, type))
    IN runExtract(stats, taps, object, data, ctx, type)

runExtract(stats, taps, object, data, ctx, type) ==
    IF Len(taps) = 0 THEN object
    ELSE runExtract(stats, Tail(taps),
                    applyExtractor(stats, Head(taps).fn, object, data, ctx, type),
                    data, ctx, type)

\* one extractor, fn(object, data, context, options, factory)
applyExtractor(stats, fn, object0, data, ctx, type) ==
    LET object == [object0 EXCEPT !.applied = Append(@, fn)]
        comp == ctx.compilation
    IN
    CASE fn = <<"compilation", "_">> ->
            IF data.needAdditionalPass
            THEN Put(object, "needAdditionalPass", Bool(TRUE)) ELSE object
      [] fn = <<"compilation", "hash">> -> Put(object, "hash", Str(data.hash))
      [] fn = <<"compilation", "version">> -> Put(object, "version", Str("5.0.0"))
      [] fn = <<"compilation", "timings">> ->
            Put(object, "time", Num(ctx.endTime - ctx.startTime))
      [] fn = <<"compilation", "builtAt">> -> Put(object, "builtAt", Num(ctx.endTime))
      [] fn = <<"compilation", "publicPath">> ->
            Put(object, "publicPath", Str(data.publicPath))
      [] fn = <<"compilation", "outputPath">> ->
            Put(object, "outputPath", Str(data.outputPath))
      [] fn = <<"compilation", "assets">> ->
            extractWithCount(stats, object, "assets", "filteredAssets", type,
                             data.assets, ctx)
      [] fn = <<"compilation", "chunks">> ->
            Put(object, "chunks",
                createArray(stats, TypeDot(type, "chunks"), data.chunks, ctx))
      [] fn = <<"compilation", "modules">> ->
            extractWithCount(stats, object, "modules", "filteredModules", type,
                             data.modules, ctx)
      [] fn = <<"compilation", "entrypoints">> ->
            Put(object, "entrypoints",
                createArray(stats, TypeDot(type, "entrypoints"), data.entrypoints, ctx))
      [] fn = <<"compilation", "chunkGroups">> ->
            Put(object, "entrypoints",
                createArray(stats, TypeDot(type, "entrypoints"),
                            data.namedChunkGroups, ctx))
      [] fn = <<"compilation", "children">> ->
            Put(object, "children",
                JsArray([idx \in 1..Len(data.children) |->
                    createArray(stats, TypeDot(type, "children"), data.children, ctx)]))
      [] fn = <<"asset", "_">> ->
            LET chunks == SelectSeq(comp.chunks, LAMBDA chunk :
                              data.name \in Range(chunk.files))
                ids == {chunks[i].id : i \in 1..Len(chunks)}
                names == {chunks[i].name : i \in 1..Len(chunks)} \ {""}
            IN Put(Put(Put(Put(Put(object,
                   "name", Str(data.name)),
                   "size", Num(data.size)),
                   "chunks", JsArray(MapSeq(SortNums(ids), Num))),
                   "chunkNames", JsArray(MapSeq(SortNames(names), Str))),
                   "emitted", Bool(data.name \in comp.emittedAssets))
      [] fn = <<"asset", "performance">> ->
            Put(object, "isOverSizeLimit", Bool(data.isOverSizeLimit))
      [] fn = <<"chunkGroup", "_">> ->
            Put(Put(Put(Put(Put(object,
                "name", Str(data.name)),
                "chunks", JsArray(MapSeq(data.chunks, Num))),
                "assets", JsArray(chunkGroupFiles(comp, data))),
                "children", [obj |-> EmptyFields]),
                "childAssets", [obj |-> EmptyFields])
      [] fn = <<"module", "_">> ->
            LET path == issuerWalk(comp, data)
                hasIssuer == HasIssuer(comp, data)
                issuer == getIssuer(comp, data)
            IN Put(Put(Put(Put(Put(Put(Put(Put(Put(Put(Put(object,
                "id", data.id),
                "identifier", Str(data.identifier)),
                "name", Str(data.name)),
                "size", Num(data.size)),
                "built", Bool(data.built)),
                "chunks", JsArray(MapSeq(SortNums(data.chunks), Num))),
                "issuer", IF hasIssuer THEN Str(issuer.identifier) ELSE Undefined),
                "issuerId", IF hasIssuer THEN issuer.id ELSE Undefined),
                "issuerName", IF hasIssuer THEN Str(issuer.name) ELSE Undefined),
                "issuerPath",
                    IF hasIssuer
                    THEN createArray(stats, TypeDot(type, "issuerPath"), path, ctx)
                    ELSE Undefined),
                "profile", createObject(stats, TypeDot(type, "profile"), data, ctx))
      [] fn = <<"module", "orphanModules">> ->
            IF ~IsSuffix(<<"module", "modules[]", "module">>, type)
            THEN Put(object, "orphan", Bool(data.chunks = {}))
            ELSE object
      [] fn = <<"module", "moduleAssets">> -> Put(object, "assets", JsArray(<<>>))
      [] fn = <<"module", "reasons">> ->
            Put(object, "reasons",
                createArray(stats, TypeDot(type, "reasons"), data.reasons, ctx))
      [] fn = <<"module", "usedExports">> -> Put(object, "usedExports", Null)
      [] fn = <<"module", "providedExports">> -> Put(object, "providedExports", Null)
      [] fn = <<"module", "optimizationBailout">> ->
            Put(object, "optimizationBailout", JsArray(<<>>))
      [] fn = <<"module", "depth">> -> Put(object, "depth", Num(data.depth))
      [] fn = <<"module", "nestedModules">> ->
            IF Len(data.modules) > 0
            THEN extractWithCount(stats, object, "modules", "filteredModules", type,
                                  data.modules, ctx)
            ELSE object
      [] fn = <<"module", "source">> -> Put(object, "source", Str(data.source))
      [] fn = <<"moduleIssuer", "_">> ->
            Put(Put(Put(Put(object,
                "id", data.id),
                "identifier", Str(data.identifier)),
                "name", Str(data.name)),
                "profile", createObject(stats, TypeDot(type, "profile"), data, ctx))
      [] fn = <<"chunk", "chunkModules">> ->
            extractWithCount(stats, object, "modules", "filteredModules", type,
                             data.modules, ctx)
      [] fn = <<"chunk", "chunkRootModules">> ->
            LET counted == extractWithCount(stats, object, "rootModules",
                                            "filteredRootModules", type,
                                            data.rootModules, ctx)
            IN Put(counted, "nonRootModules",
                   Num(Len(data.modules) - Len(data.rootModules)))
      [] OTHER -> object

----------------------------------------------------------------------------
(* StatsPrinter.print and the printers of compilation.entrypoints and      *)
(* compilation.namedChunkGroups                                            *)

\* A print context is a function from entry names to values: "colors"
\* (options.colors, from which the colour and format helpers derive),
\* "type", "_index", "_element" and "chunkGroupKind" when they are set.
\* The entries that hold report objects ([type], _parent, [element],
\* [itemName]) are not used by the printers modelled here and are left out.
\*
\* A print returns [content |-> a string, undefined or [threw |-> TRUE],
\*                  calls |-> the print calls made, in call order,
\*                  taps |-> the calls of the two group printers, in order]
\* (calls and taps are history).

MaxStack == 8

Thrown == [threw |-> TRUE]

HasThrown(v) == "threw" \in DOMAIN v

IsPrintObject(v) == "keys" \in DOMAIN v

\* Object.values(object)
ObjectValues(object) == [i \in 1..Len(object.keys) |-> object.val[object.keys[i]]]

\* Object.assign({}, context, {[key]: value}) and {...context, [key]: value}
ContextWith(context, key, value) == (key :> value) @@ context

\* context.chunkGroupKind
chunkGroupKind(context) ==
    IF "chunkGroupKind" \in DOMAIN context THEN Str(context["chunkGroupKind"])
    ELSE Undefined

PRINTER_ITEM_NAMES ==
    {[key |-> <<"compilation", "assets[]">>, name |-> "asset"],
     [key |-> <<"compilation", "modules[]">>, name |-> "module"],
     [key |-> <<"compilation", "chunks[]">>, name |-> "chunk"],
     [key |-> <<"compilation", "entrypoints[]">>, name |-> "chunkGroup"],
     [key |-> <<"compilation", "namedChunkGroups[]">>, name |-> "chunkGroup"],
     [key |-> <<"asset", "chunks[]">>, name |-> "assetChunk"],
     [key |-> <<"asset", "chunkNames[]">>, name |-> "assetChunkName"],
     [key |-> <<"module", "modules[]">>, name |-> "module"],
     [key |-> <<"module", "reasons[]">>, name |-> "moduleReason"]}

\* the getItemName hook of the printer for `${type}[]`
printerItemName(itemsType) ==
    LET hits == {e \in PRINTER_ITEM_NAMES : IsSuffix(e.key, itemsType)}
    IN IF hits = {} THEN "" ELSE (CHOOSE e \in hits : TRUE).name

Leaf(content) == [content |-> content, calls |-> <<>>, taps |-> <<>>]

RECURSIVE print(_, _, _, _)

\* mutant: the kind is assigned into the caller's context object
compilationGroupsPrinterSharedContext(kind, value, context, stack) ==
    IF IsArray(value)
    THEN [content |-> Undefined, calls |-> <<>>, taps |-> <<>>,
          after |-> context, nested |-> FALSE]
    ELSE LET shared == ContextWith(context, "chunkGroupKind", kind)
             inner == print(context["type"], JsArray(ObjectValues(value)),
                            shared, stack + 1)
         IN [content |-> inner.content, calls |-> inner.calls, taps |-> inner.taps,
             after |-> shared, nested |-> TRUE]

\* mutant: the value is printed again whether or not it is an array
compilationGroupsPrinterNoArrayCheck(kind, value, context, stack) ==
    LET values == IF IsArray(value) THEN value ELSE JsArray(ObjectValues(value))
        inner == print(context["type"], values,
                       ContextWith(context, "chunkGroupKind", kind), stack + 1)
    IN [content |-> inner.content, calls |-> inner.calls, taps |-> inner.taps,
        after |-> context, nested |-> TRUE]

\* SIMPLE_PRINTERS["compilation.entrypoints"] (kind "Entrypoint") and
\* SIMPLE_PRINTERS["compilation.namedChunkGroups"] (kind "ChunkGroup");
\* `after` is the caller's context object when the printer returns
compilationGroupsPrinter(kind, value, context, stack) ==
    IF IsArray(value)
    THEN [content |-> Undefined, calls |-> <<>>, taps |-> <<>>,
          after |-> context, nested |-> FALSE]
    ELSE LET inner == print(context["type"], JsArray(ObjectValues(value)),
                            ContextWith(context, "chunkGroupKind", kind), stack + 1)
         IN [content |-> inner.content, calls |-> inner.calls, taps |-> inner.taps,
             after |-> context, nested |-> TRUE]

\* a call of one of the two group printers, with its history
groupsTap(key, kind, value, context, stack) ==
    LET r == compilationGroupsPrinter(kind, value, context, stack)
    IN [content |-> r.content,
        calls |-> r.calls,
        taps |-> <<[key |-> key, isArray |-> IsArray(value), before |-> context,
                    after |-> r.after, nested |-> r.nested,
                    content |-> r.content]>> \o r.taps]

\* the print hook: the printer of SIMPLE_PRINTERS whose key ends the type
printHook(type, object, context, stack) ==
    CASE IsSuffix(<<"compilation", "hash">>, type) ->
            Leaf(IF type = <<"compilation", "hash">>
                 THEN Str("Hash: " \o Colorize(context, "bold", JsToString(object)))
                 ELSE Undefined)
      [] IsSuffix(<<"compilation", "entrypoints">>, type) ->
            groupsTap("entrypoints", "Entrypoint", object, context, stack)
      [] IsSuffix(<<"compilation", "namedChunkGroups">>, type) ->
            groupsTap("namedChunkGroups", "ChunkGroup", object, context, stack)
      [] IsSuffix(<<"chunkGroup", "kind!">>, type) -> Leaf(chunkGroupKind(context))
      [] IsSuffix(<<"chunkGroup", "name">>, type) ->
            Leaf(Str(Colorize(context, "bold", JsToString(object))))
      [] IsSuffix(<<"chunkGroup", "isOverSizeLimit">>, type) ->
            Leaf(IF Truthy(object)
                 THEN Str(Colorize(context, "yellow", formatFlag("big")))
                 ELSE Undefined)
      [] IsSuffix(<<"chunkGroup", "separator!">>, type) -> Leaf(Str("="))
      [] IsSuffix(<<"chunkGroup", "assets[]">>, type) ->
            Leaf(Str(Colorize(context, "green", JsToString(object))))
      [] OTHER -> Leaf(Undefined)

\* the printItems hook, then the default: the printed items that are truthy,
\* joined by line breaks, undefined when there are none
printItemsOrDefault(type, printedItems) ==
    LET kept == SelectSeq(printedItems, Truthy)
        strings == [i \in 1..Len(kept) |-> kept[i].str]
    IN IF IsSuffix(<<"asset", "chunks">>, type) \/ IsSuffix(<<"asset", "chunkNames">>, type)
       THEN Str(JoinStrings([i \in 1..Len(printedItems) |->
                                JsToString(printedItems[i])], ", "))
       ELSE IF Len(kept) > 0 THEN Str(JoinStrings(strings, "\n"))
       ELSE Undefined

\* the printElements hook, then the default: the contents that are truthy,
\* joined, undefined when there are none
printElementsOrDefault(type, printedElements, object) ==
    LET last == type[Len(type)]
        contents == [i \in 1..Len(printedElements) |-> printedElements[i].content]
        kept == SelectSeq(contents, Truthy)
    IN IF last = "chunkGroup" THEN Str(joinOneLine(printedElements))
       ELSE IF last = "module"
       THEN Str(SIMPLE_ELEMENT_JOINERS_module(printedElements, object))
       ELSE IF Len(kept) > 0
       THEN Str(JoinStrings([i \in 1..Len(kept) |-> kept[i].str], " "))
       ELSE Undefined

\* the sortElements hook: createOrder with the order of the type's name
sortElements(type, elements) ==
    LET last == type[Len(type)]
    IN IF last \in DOMAIN PREFERED_ORDERS
       THEN createOrder(elements, PREFERED_ORDERS[last])
       ELSE elements

\* StatsPrinter.print(type, object, baseContext); stack is the depth of the
\* call, and a call beyond MaxStack throws (the stack is exhausted)
print(type, object, baseContext, stack) ==
    IF stack > MaxStack THEN Leaf(Thrown)
    ELSE
    LET context == ContextWith(baseContext, "type", type)
        hooked == printHook(type, object, context, stack)
        call(content) ==
            [type |-> type, isArray |-> IsArray(object),
             kind |-> chunkGroupKind(context), stack |-> stack, content |-> content]
        done(content, calls, taps) ==
            [content |-> content,
             calls |-> <<call(content)>> \o hooked.calls \o calls,
             taps |-> hooked.taps \o taps]
    IN
    IF hooked.content # Undefined THEN done(hooked.content, <<>>, <<>>)
    ELSE IF IsArray(object)
    THEN LET itemName == printerItemName(TypeItems(type))
             itemType == IF itemName # "" THEN Append(TypeItems(type), itemName)
                         ELSE TypeItems(type)
             subs == [i \in 1..Len(object.arr) |->
                         print(itemType, object.arr[i],
                               ContextWith(context, "_index", i - 1), stack + 1)]
             printedItems == [i \in 1..Len(subs) |-> subs[i].content]
             content == IF \E i \in 1..Len(subs) : HasThrown(subs[i].content)
                        THEN Thrown
                        ELSE printItemsOrDefault(type, printedItems)
         IN done(content,
                 FlattenSeqs([i \in 1..Len(subs) |-> subs[i].calls]),
                 FlattenSeqs([i \in 1..Len(subs) |-> subs[i].taps]))
    ELSE IF IsPrintObject(object)
    THEN LET elements == sortElements(type, object.keys)
             subs == [i \in 1..Len(elements) |->
                         print(Append(type, elements[i]), Get(object, elements[i]),
                               ContextWith(context, "_element", elements[i]),
                               stack + 1)]
             printedElements ==
                 [i \in 1..Len(subs) |->
                     [element |-> elements[i], content |-> subs[i].content]]
             content == IF \E i \in 1..Len(subs) : HasThrown(subs[i].content)
                        THEN Thrown
                        ELSE printElementsOrDefault(type, printedElements, object)
         IN done(content,
                 FlattenSeqs([i \in 1..Len(subs) |-> subs[i].calls]),
                 FlattenSeqs([i \in 1..Len(subs) |-> subs[i].taps]))
    ELSE done(Undefined, <<>>, <<>>)

----------------------------------------------------------------------------
(* Printer side: the calls made and their inputs                           *)

MaxFields == 3
MaxCells == 4
MaxAssetRows == 2
MaxModuleFields == 4

FieldNames == {"a", "b", "z", "kind!"}

TableCells == {"", "a", "bb"}

Splitters == {<<>>, <<"">>, <<" | ">>}

ExampleTable == <<<<"a", "bb">>, <<"ccc", "d">>>>

TableInputs ==
    {[op |-> "table", array |-> array, align |-> align, splitter |-> splitter] :
        array \in {ExampleTable}, align \in {<<"l", "r">>}, splitter \in {<<>>}}
    \cup
    UNION {
        {[op |-> "table", array |-> array, align |-> align, splitter |-> splitter] :
            array \in [1..rows -> [1..cols -> TableCells]],
            align \in [1..cols -> {"l", "r"}],
            splitter \in Splitters} :
        <<rows, cols>> \in {size \in (1..MaxCells) \X (1..MaxCells) :
                                size[1] * size[2] <= MaxCells}}
    \cup
    {[op |-> "table", array |-> <<>>, align |-> <<"l">>, splitter |-> <<>>]}

\* printed fields of one asset, as handed to the printElements tap
PrintedAssets ==
    {<<[element |-> "name", content |-> Str("main.js")],
       [element |-> "size", content |-> Str("120 bytes")],
       [element |-> "chunks", content |-> Str("{0}")],
       [element |-> "emitted", content |-> Str("[emitted]")],
       [element |-> "chunkNames", content |-> Str("main")]>>,
     <<[element |-> "name", content |-> Str("a.js")],
       [element |-> "size", content |-> Str("1 KiB")],
       [element |-> "chunks", content |-> Str("")],
       [element |-> "emitted", content |-> Undefined],
       [element |-> "isOverSizeLimit", content |-> Str("[big]")],
       [element |-> "chunkNames", content |-> Str("")]>>,
     <<[element |-> "chunkNames", content |-> Str("vendor, main")],
       [element |-> "name", content |-> Str("vendor.bundle.js")]>>}

PrintContexts == [colors : BOOLEAN]

ModuleFieldNames == {"id", "name", "identifier", "built", "zz"}

ModuleFieldValues ==
    [id |-> {Num(0), Str("./a.js")},
     name |-> {Str("./a.js"), Str("./b.js"), Str("")},
     identifier |-> {Str("/src/a.js"), Str("")},
     built |-> {Bool(TRUE)},
     zz |-> {Num(7)}]

ModuleNodes ==
    {[keys |-> keys, val |-> [f \in Range(keys) |-> all[f]]] :
        keys \in DistinctSeqs(ModuleFieldNames, MaxModuleFields),
        all \in [id : ModuleFieldValues.id, name : ModuleFieldValues.name,
                 identifier : ModuleFieldValues.identifier,
                 built : ModuleFieldValues.built, zz : ModuleFieldValues.zz]}

PrinterIdle == printCall.op = "idle"

CallCreateOrder ==
    /\ PrinterIdle
    /\ \E array \in DistinctSeqs(FieldNames, MaxFields),
          preferedOrder \in DistinctSeqs(FieldNames, MaxFields) :
        /\ printCall' = [op |-> "createOrder", array |-> array,
                         preferedOrder |-> preferedOrder]
        /\ printResult' = [done |-> TRUE,
                           value |-> [arr |-> createOrder(array, preferedOrder)]]
    /\ UNCHANGED factoryVars

CallTable ==
    /\ PrinterIdle
    /\ \E call \in TableInputs :
        /\ printCall' = call
        /\ printResult' = [done |-> TRUE,
                           value |-> table(call.array, call.align, call.splitter)]
    /\ UNCHANGED factoryVars

CallPrintItemsAssets ==
    /\ PrinterIdle
    /\ \E assets \in SeqsUpTo(PrintedAssets, MaxAssetRows), ctx \in PrintContexts :
        LET items == [i \in 1..Len(assets) |-> printElements_asset(assets[i])]
        IN /\ printCall' = [op |-> "printItems", items |-> items, ctx |-> ctx]
           /\ printResult' = [done |-> TRUE, value |-> printItems_assets(items, ctx)]
    /\ UNCHANGED factoryVars

CallPrintModule ==
    /\ PrinterIdle
    /\ \E node \in ModuleNodes, ctx \in PrintContexts :
        /\ printCall' = [op |-> "printModule", node |-> node, ctx |-> ctx]
        /\ printResult' =
              [done |-> TRUE, value |-> print_module(node, ctx),
               elements |-> moduleJoinerFilter(printedElements_module(node, ctx),
                                               node, 1, FALSE)]
    /\ UNCHANGED factoryVars

InitPrinter ==
    /\ printCall = [op |-> "idle"]
    /\ printResult = [done |-> FALSE]
    /\ statsOptions = Undefined
    /\ compilation = Undefined
    /\ statsFactory = Undefined
    /\ filtered = {}
    /\ pc = "off"
    /\ report = Undefined

NextPrinter ==
    \/ CallCreateOrder
    \/ CallTable
    \/ CallPrintItemsAssets
    \/ CallPrintModule

SpecPrinter == InitPrinter /\ [][NextPrinter]_vars

----------------------------------------------------------------------------
(* Factory side: build sessions, Options and the steps of a request        *)

MaxAssets == 2
MaxChildren == 2
MaxChildOptions == 2

NoModules == <<>>

ModuleD ==
    [name |-> "./d.js", identifier |-> "/src/d.js", id |-> Null, size |-> 5,
     built |-> FALSE, chunks |-> {}, issuer |-> "", depth |-> 3,
     modules |-> NoModules, reasons |-> <<>>, source |-> "d"]

ModuleA ==
    [name |-> "./a.js", identifier |-> "/src/a.js", id |-> Num(0), size |-> 10,
     built |-> TRUE, chunks |-> {0}, issuer |-> "", depth |-> 0,
     modules |-> NoModules, reasons |-> <<>>, source |-> "a"]

ModuleB ==
    [name |-> "./b.js", identifier |-> "/src/b.js", id |-> Num(1), size |-> 20,
     built |-> TRUE, chunks |-> {0}, issuer |-> "./a.js", depth |-> 1,
     modules |-> NoModules, reasons |-> <<[name |-> "./a.js"]>>, source |-> "b"]

ModuleC ==
    [name |-> "./c.js", identifier |-> "/src/c.js", id |-> Str("./c.js"), size |-> 30,
     built |-> FALSE, chunks |-> {1}, issuer |-> "./b.js", depth |-> 2,
     modules |-> <<ModuleD>>, reasons |-> <<[name |-> "./b.js"]>>, source |-> "c"]

AssetNamed(name, size, big) == [name |-> name, size |-> size, isOverSizeLimit |-> big]

AssetPool ==
    <<AssetNamed("main.js", 120, FALSE), AssetNamed("a.js", 300000, TRUE),
      AssetNamed("b.js", 7, FALSE), AssetNamed("c.js", 8, FALSE)>>

ChildCompilation(i) ==
    LET file == "child" \o NatToString(i) \o ".js"
    IN [name |-> "child" \o NatToString(i),
        hash |-> "c" \o NatToString(i),
        needAdditionalPass |-> FALSE,
        publicPath |-> "/",
        outputPath |-> "/dist",
        assets |-> <<AssetNamed(file, 50, FALSE)>>,
        emittedAssets |-> {file},
        chunks |-> <<[name |-> "child", id |-> 0, files |-> <<file>>,
                      modules |-> NoModules, rootModules |-> NoModules]>>,
        modules |-> NoModules,
        entrypoints |-> <<>>,
        namedChunkGroups |-> <<>>,
        children |-> <<>>]

RootCompilation(nAssets, nChildren) ==
    [name |-> "root",
     hash |-> "h0",
     needAdditionalPass |-> (nAssets = 0),
     publicPath |-> "/",
     outputPath |-> "/dist",
     assets |-> SubSeq(AssetPool, 1, nAssets),
     emittedAssets |-> {"main.js"},
     chunks |-> <<[name |-> "main", id |-> 0, files |-> <<"main.js">>,
                   modules |-> <<ModuleA, ModuleB>>, rootModules |-> <<ModuleA>>],
                  [name |-> "", id |-> 1, files |-> <<"a.js">>,
                   modules |-> <<ModuleC>>, rootModules |-> <<ModuleC>>]>>,
     modules |-> <<ModuleA, ModuleB, ModuleC>>,
     entrypoints |-> <<[name |-> "main", chunks |-> <<0>>]>>,
     namedChunkGroups |-> <<[name |-> "main", chunks |-> <<0>>],
                            [name |-> "vendor", chunks |-> <<1>>]>>,
     children |-> [i \in 1..nChildren |-> ChildCompilation(i)]]

FilteredNames == {{}, {"a.js", "./b.js"}}

\* every option name of the catalog, and "children"
OptionNames ==
    <<"hash", "version", "timings", "builtAt", "publicPath", "outputPath",
      "assets", "chunks", "modules", "entrypoints", "chunkGroups", "performance",
      "orphanModules", "moduleAssets", "reasons", "usedExports",
      "providedExports", "optimizationBailout", "depth", "nestedModules",
      "source", "chunkModules", "chunkRootModules", "children">>

TruthyValues == <<Num(1), Str("verbose")>>

FalsyValues == <<Bool(FALSE), Num(0), Str(""), Null>>

\* Options with the names in `on` set: with style "plain" to true and the
\* others missing, with style "loose" to truthy values that are not
\* booleans and the others to falsy values
OptionsWith(on, style) ==
    IF style = "plain"
    THEN [obj |-> [name \in on |-> Bool(TRUE)]]
    ELSE [obj |-> [name \in Range(OptionNames) |->
                      LET i == IndexOf(OptionNames, name)
                      IN IF name \in on THEN TruthyValues[(i % 2) + 1]
                         ELSE FalsyValues[(i % 4) + 1]]]

\* nothing on, one option on, all but one on, everything on
OnSets ==
    {{}, Range(OptionNames)}
    \cup {{name} : name \in Range(OptionNames)}
    \cup {Range(OptionNames) \ {name} : name \in Range(OptionNames)}

RootOptions ==
    {OptionsWith(on, style) : on \in OnSets, style \in {"plain", "loose"}}
    \cup {[obj |-> [name \in {"assets", "chunks"} |-> Bool(name = "assets")]]}

\* Options given for child sessions
ChildOptionValues ==
    {[obj |-> EmptyFields],
     [obj |-> [name \in {"assets"} |-> Bool(TRUE)]],
     [obj |-> [name \in {"hash"} |-> Bool(TRUE)]]}

ChildrenValues ==
    {Undefined, Bool(TRUE), Bool(FALSE), Str("verbose"), Num(3)}
    \cup ChildOptionValues
    \cup {JsArray(list) : list \in SeqsUpTo(ChildOptionValues, MaxChildOptions)}

ChildrenOptions ==
    {[obj |-> [name \in {"hash", "children"} |->
                  IF name = "hash" THEN Bool(TRUE) ELSE children]] :
        children \in ChildrenValues}

RootFrom == [kind |-> "root", index |-> -1, value |-> Undefined]

RootContext ==
    [compilation |-> compilation, index |-> -1, excluded |-> filtered,
     startTime |-> 100, endTime |-> 250]

RootType == <<"compilation">>

\* compilation.hooks.statsFactory.call(stats, options, context)
StatsFactoryTap ==
    /\ pc = "new"
    /\ statsFactory' = statsFactoryTap(statsFactory, statsOptions)
    /\ pc' = "tapped"
    /\ UNCHANGED <<statsOptions, compilation, filtered, report>>
    /\ UNCHANGED printerVars

\* stats.create("compilation", compilation, context)
Create ==
    /\ pc = "tapped"
    /\ report' = createObject(statsFactory, RootType, compilation, RootContext)
    /\ pc' = "created"
    /\ UNCHANGED <<statsOptions, compilation, filtered, statsFactory>>
    /\ UNCHANGED printerVars

InitFactoryWith(optionsSet, compilations) ==
    /\ printCall = [op |-> "idle"]
    /\ printResult = [done |-> FALSE]
    /\ statsOptions \in optionsSet
    /\ compilation \in compilations
    /\ filtered \in FilteredNames
    /\ statsFactory = NewStatsFactory(RootFrom)
    /\ pc = "new"
    /\ report = Undefined

Init ==
    InitFactoryWith(RootOptions,
                    {RootCompilation(nAssets, 1) : nAssets \in 0..MaxAssets})

InitChildren ==
    InitFactoryWith(ChildrenOptions,
                    {RootCompilation(1, nChildren) : nChildren \in 0..MaxChildren})

Next ==
    \/ StatsFactoryTap
    \/ Create

Spec == Init /\ [][Next]_vars

SpecChildren == InitChildren /\ [][Next]_vars

MaxItems == 3

MergeNames == {"x", "y", "z"}

MergeItem(name, v) == [obj |-> [k \in {"name", "v"} |-> IF k = "name" THEN Str(name) ELSE Num(v)]]

MergeItems == {MergeItem(name, v) : name \in MergeNames, v \in 1..2}

MergeInputs == SeqsUpTo(MergeItems, MaxItems)

\* stats.hooks.merge.for(key).call(items, context) with the tap of MERGER
CallMergeToObject ==
    /\ PrinterIdle
    /\ \E items \in MergeInputs :
          /\ printCall' = [op |-> "mergeToObject", items |-> JsArray(items)]
          /\ printResult' = [done |-> TRUE, value |-> mergeToObject(items)]
    /\ UNCHANGED factoryVars

SpecMerge == InitPrinter /\ [][CallMergeToObject]_vars

MaxModules == 4

ModuleName(k) == "./m" \o NatToString(k) \o ".js"

ModuleIdentifier(k) == "/src/m" \o NatToString(k) \o ".js"

\* issuers[k] is the module that issued module k, 0 when there is none;
\* following it from any module ends (the chain is finite and acyclic)
RECURSIVE ChainEnds(_, _, _)
ChainEnds(issuers, k, steps) ==
    k = 0 \/ (steps > 0 /\ ChainEnds(issuers, issuers[k], steps - 1))

IssuerMaps ==
    {issuers \in [1..MaxModules -> 0..MaxModules] :
        \A k \in 1..MaxModules : ChainEnds(issuers, k, MaxModules)}

GraphModule(issuers, k) ==
    [name |-> ModuleName(k), identifier |-> ModuleIdentifier(k), id |-> Num(k),
     size |-> 10, built |-> TRUE, chunks |-> {0},
     issuer |-> IF issuers[k] = 0 THEN "" ELSE ModuleName(issuers[k]),
     depth |-> 0, modules |-> NoModules, reasons |-> <<>>, source |-> ""]

GraphCompilation(issuers) ==
    [RootCompilation(0, 0) EXCEPT
        !.modules = [k \in 1..MaxModules |-> GraphModule(issuers, k)]]

ModuleType == <<"compilation", "modules[]", "module">>

\* factory.create for one module of compilation.modules, with default
\* Options: the extractor module._ runs
CallModuleExtractor ==
    /\ PrinterIdle
    /\ \E issuers \in IssuerMaps, k \in 1..MaxModules :
          LET comp == GraphCompilation(issuers)
              stats == createStatsFactory([obj |-> EmptyFields], RootFrom)
              ctx == [compilation |-> comp, index |-> k - 1, excluded |-> {},
                      startTime |-> 100, endTime |-> 250]
              path == issuerWalk(comp, comp.modules[k])
          IN /\ printCall' = [op |-> "moduleExtractor", issuers |-> issuers,
                              module |-> k]
             /\ printResult' =
                   [done |-> TRUE,
                    value |-> createObject(stats, ModuleType, comp.modules[k], ctx),
                    path |-> [n \in 1..Len(path) |-> path[n].name]]
    /\ UNCHANGED factoryVars

SpecIssuer == InitPrinter /\ [][CallModuleExtractor]_vars

MaxGroups == 2

GroupNames == {"main", "vendor", "app"}

EmptyObject == [keys |-> <<>>, val |-> EmptyFields]

\* the report of one chunk group, as the chunkGroup extractor lays it out
ChunkGroupNode(name) ==
    [keys |-> <<"name", "chunks", "assets", "children", "childAssets",
                "isOverSizeLimit">>,
     val |-> [k \in {"name", "chunks", "assets", "children", "childAssets",
                     "isOverSizeLimit"} |->
                CASE k = "name" -> Str(name)
                  [] k = "chunks" -> JsArray(<<Num(0)>>)
                  [] k = "assets" -> JsArray(<<Str(name \o ".js")>>)
                  [] k = "isOverSizeLimit" -> Bool(name = "vendor")
                  [] OTHER -> EmptyObject]]

\* the groups as a mapping keyed by name (after the merge hook) and as the
\* list they were before
GroupValues ==
    UNION {{[keys |-> names, val |-> [n \in Range(names) |-> ChunkGroupNode(n)]],
            JsArray([i \in 1..Len(names) |-> ChunkGroupNode(names[i])])} :
           names \in DistinctSeqs(GroupNames, MaxGroups)}

\* the fields a compilation node has, in the order they were written
CompilationKeyOrders ==
    {<<>>, <<"hash">>, <<"entrypoints">>, <<"namedChunkGroups">>,
     <<"hash", "entrypoints">>, <<"namedChunkGroups", "hash">>,
     <<"entrypoints", "namedChunkGroups">>,
     <<"hash", "entrypoints", "namedChunkGroups">>,
     <<"namedChunkGroups", "entrypoints", "hash">>}

CompilationNodes ==
    {[keys |-> keys,
      val |-> [k \in Range(keys) |->
                  CASE k = "entrypoints" -> entrypoints
                    [] k = "namedChunkGroups" -> namedChunkGroups
                    [] OTHER -> Str("h0")]] :
        keys \in CompilationKeyOrders,
        entrypoints \in GroupValues,
        namedChunkGroups \in GroupValues}

\* printer.print("compilation", object, {colors})
CallPrint ==
    /\ PrinterIdle
    /\ \E object \in CompilationNodes, colors \in BOOLEAN :
          LET baseContext == [k \in {"colors"} |-> colors]
              r == print(<<"compilation">>, object, baseContext, 1)
          IN /\ printCall' = [op |-> "print", object |-> object,
                              context |-> baseContext]
             /\ printResult' = [done |-> TRUE, value |-> r.content,
                                calls |-> r.calls, taps |-> r.taps]
    /\ UNCHANGED factoryVars

SpecPrint == InitPrinter /\ [][CallPrint]_vars

----------------------------------------------------------------------------
(* Properties of the printer side                                          *)

\* the lines of a text: text.split("\n")
RECURSIVE SplitLines(_)
SplitLines(s) ==
    IF \E i \in 1..Len(s) : Slice(s, i, i) = "\n"
    THEN LET i == CHOOSE k \in 1..Len(s) :
                      /\ Slice(s, k, k) = "\n"
                      /\ \A j \in 1..(k - 1) : Slice(s, j, j) # "\n"
         IN <<Slice(s, 1, i - 1)>> \o SplitLines(Slice(s, i + 1, Len(s)))
    ELSE <<s>>

CountIn(seq, e) == Cardinality({i \in 1..Len(seq) : seq[i] = e})

IsPseudo(e) == EndsWith(e, "!")

\* C2: createOrder(present, preferred) is the preferred entries that are
\* present or pseudo-entries, in preferred order, followed by the remaining
\* present fields in their original order; nothing present is dropped or
\* duplicated, pseudo-entries of preferred always appear, and
\* createOrder(["b","a","z"], ["a","b"]) = ["a","b","z"].
C2_CreateOrderContract ==
    printCall.op = "createOrder" =>
        LET present == printCall.array
            preferred == printCall.preferedOrder
            result == printResult.value.arr
            placed == {e \in Range(preferred) : IsPseudo(e) \/ e \in Range(present)}
        IN /\ \A f \in Range(present) : CountIn(result, f) = 1
           /\ \A e \in Range(preferred) : IsPseudo(e) => CountIn(result, e) = 1
           /\ Range(result) = Range(present) \cup placed
           /\ \A i, j \in 1..Len(result) :
                 i < j =>
                    /\ result[j] \in placed => result[i] \in placed
                    /\ (result[i] \in placed /\ result[j] \in placed) =>
                          IndexOf(preferred, result[i]) < IndexOf(preferred, result[j])
                    /\ (result[i] \notin placed /\ result[j] \notin placed) =>
                          IndexOf(present, result[i]) < IndexOf(present, result[j])
           /\ (present = <<"b", "a", "z">> /\ preferred = <<"a", "b">>) =>
                 result = <<"a", "b", "z">>

C2_Witness ==
    /\ printCall.op = "createOrder"
    /\ printResult.done
    /\ printCall.array = <<"b", "a", "z">>
    /\ printCall.preferedOrder = <<"kind!", "a", "b">>
    /\ printResult.value.arr = <<"kind!", "a", "b", "z">>

\* what the claims about table() read off a call
TableWidth(array, col) ==
    MaxOf({0} \cup {Len(array[row][col]) : row \in 1..Len(array)})

TableSeparator(splitter) ==
    IF splitter = <<>> \/ splitter = <<"">> THEN "  " ELSE splitter[1]

RECURSIVE TableOffset(_, _, _)
TableOffset(array, splitter, col) ==
    IF col <= 1 THEN 0
    ELSE TableOffset(array, splitter, col - 1)
         + TableWidth(array, col - 1)
         + (IF TableWidth(array, col - 1) # 0 THEN Len(TableSeparator(splitter)) ELSE 0)

TablePadded(array, align, row, col) ==
    LET gap == Spaces(TableWidth(array, col) - Len(array[row][col]))
    IN IF align[col] = "r" THEN gap \o array[row][col] ELSE array[row][col] \o gap

IsSpaces(s) == \A i \in 1..Len(s) : Slice(s, i, i) = " "

TableCallDone ==
    /\ printCall.op = "table"
    /\ printResult.done
    /\ Len(printCall.array) > 0

\* C3: table() pads every cell to the maximum width of its column, a
\* left-aligned cell on its right and a right-aligned cell on its left, and a
\* right-aligned final column is padded too (only the trailing padding of a
\* left-aligned final column is omitted).
C3_EveryCellPadded ==
    TableCallDone =>
        LET array == printCall.array
            align == printCall.align
            cols == Len(array[1])
            lines == SplitLines(printResult.value.str)
        IN \A row \in 1..Len(array) : \A col \in 1..cols :
              LET from == TableOffset(array, printCall.splitter, col)
                  shown == Slice(lines[row], from + 1, from + TableWidth(array, col))
              IN IF col = cols /\ align[col] = "l"
                 THEN Slice(lines[row], from + 1, Len(lines[row])) = array[row][col]
                 ELSE shown = TablePadded(array, align, row, col)

\* C4: in every row nothing follows the last column's cell, a separator
\* follows a non-last column iff that column's width is non-zero, and every
\* non-last column starts at the same offset in every row.
C4_TableLayout ==
    TableCallDone =>
        LET array == printCall.array
            align == printCall.align
            splitter == printCall.splitter
            cols == Len(array[1])
            lines == SplitLines(printResult.value.str)
        IN /\ Len(lines) = Len(array)
           /\ \A row \in 1..Len(array) :
              LET line == lines[row]
                  last == array[row][cols]
                  lastFrom == TableOffset(array, splitter, cols)
              IN /\ Len(line) >= lastFrom + Len(last)
                 /\ Slice(line, Len(line) - Len(last) + 1, Len(line)) = last
                 /\ IsSpaces(Slice(line, lastFrom + 1, Len(line) - Len(last)))
                 /\ align[cols] = "l" => Len(line) = lastFrom + Len(last)
                 /\ \A col \in 1..(cols - 1) :
                       LET from == TableOffset(array, splitter, col)
                           width == TableWidth(array, col)
                       IN /\ Slice(line, from + 1, from + width)
                                = TablePadded(array, align, row, col)
                          /\ width # 0 =>
                                Slice(line, from + width + 1,
                                       TableOffset(array, splitter, col + 1))
                                   = TableSeparator(splitter)
                          /\ width = 0 =>
                                TableOffset(array, splitter, col + 1) = from

C4_Witness ==
    /\ TableCallDone
    /\ printCall.array = <<<<"", "a">>, <<"", "bb">>>>
    /\ printCall.align = <<"r", "l">>
    /\ printResult.value = Str("a\nbb")

C4_WitnessSeparated ==
    /\ TableCallDone
    /\ printCall.array = <<<<"a", "a">>, <<"bb", "">>>>
    /\ printCall.align = <<"r", "l">>
    /\ printCall.splitter = <<" | ">>
    /\ printResult.value = Str(" a | a\nbb | ")

\* C5: the assets items printer returns undefined for an empty list of rows
\* (no header-only table, no exception), and for a non-empty list a text of
\* one header line plus one line per asset.
C5_NoBareHeader ==
    (printCall.op = "printItems" /\ printResult.done) =>
        LET items == printCall.items
            value == printResult.value
            boldOn == IF printCall.ctx.colors THEN ESC \o "[1m" ELSE ""
            boldOff == IF printCall.ctx.colors THEN ESC \o "[39m" \o ESC \o "[22m" ELSE ""
        IN /\ "threw" \notin DOMAIN value
           /\ Len(items) = 0 <=> IsUndefined(value)
           /\ Len(items) > 0 =>
                 /\ IsStr(value)
                 /\ LET lines == SplitLines(value.str)
                    IN /\ Len(lines) = 1 + Len(items)
                       /\ EndsWith(lines[1], boldOn \o "Chunk Names" \o boldOff)
                       /\ \A i \in 1..Len(items) :
                             EndsWith(lines[i + 1], items[i][6])

C5_Witness ==
    /\ printCall.op = "printItems"
    /\ printResult.done
    /\ Len(printCall.items) = 0
    /\ IsUndefined(printResult.value)

C5_WitnessRows ==
    /\ printCall.op = "printItems"
    /\ printResult.done
    /\ Len(printCall.items) = 2
    /\ IsStr(printResult.value)
    /\ Len(SplitLines(printResult.value.str)) = 3

\* C7: a module node whose id equals its name is joined to a line that shows
\* the id and neither the name nor the identifier; when id differs from
\* name the name is shown, and the identifier only if the name is empty.
C7_ModuleNameSuppression ==
    (printCall.op = "printModule" /\ printResult.done) =>
        LET node == printCall.node
            ctx == printCall.ctx
            has(f) == f \in Range(node.keys)
            kept == {printResult.elements[i].element :
                        i \in 1..Len(printResult.elements)}
            content(f) == SIMPLE_PRINTERS_module(f, Get(node, f), ctx)
            idIsName == has("id") /\ has("name") /\ node.val["id"] = node.val["name"]
            ordered == createOrder(node.keys, PREFERED_ORDERS.module)
            visible == SelectSeq(ordered, LAMBDA f :
                          /\ Truthy(content(f))
                          /\ IF idIsName THEN f \notin {"name", "identifier"}
                             ELSE f = "identifier" =>
                                     ~(has("name") /\ Truthy(content("name"))))
            line == JoinStrings([i \in 1..Len(visible) |-> content(visible[i]).str], " ")
        IN /\ idIsName =>
                 /\ "id" \in kept
                 /\ "name" \notin kept
                 /\ "identifier" \notin kept
           /\ (has("name") /\ ~idIsName) =>
                 /\ "name" \in kept
                 /\ "identifier" \in kept <=>
                       (has("identifier") /\ ~Truthy(content("name")))
           /\ (has("name") \/ idIsName) => printResult.value = Str(line)

C7_Witness ==
    /\ printCall.op = "printModule"
    /\ printResult.done
    /\ printCall.node.keys = <<"identifier", "name", "built", "id">>
    /\ printCall.node.val["id"] = Str("./a.js")
    /\ printCall.node.val["name"] = Str("./a.js")
    /\ printCall.node.val["identifier"] = Str("/src/a.js")
    /\ ~printCall.ctx.colors
    /\ printResult.value = Str("[./a.js] [built]")

C7_WitnessDiffers ==
    /\ printCall.op = "printModule"
    /\ printResult.done
    /\ printCall.node.keys = <<"identifier", "name", "id">>
    /\ printCall.node.val["id"] = Num(0)
    /\ printCall.node.val["name"] = Str("")
    /\ printResult.value = Str("[0] /src/a.js")

----------------------------------------------------------------------------
(* Properties of the factory side                                          *)

\* the object nodes of a report value, the value itself included
RECURSIVE NodesOf(_)
NodesOf(value) ==
    IF IsArray(value)
    THEN UNION {NodesOf(value.arr[i]) : i \in 1..Len(value.arr)}
    ELSE IF IsObject(value)
    THEN (IF "applied" \in DOMAIN value THEN {value} ELSE {})
         \cup UNION {NodesOf(value.obj[k]) : k \in DOMAIN value.obj}
    ELSE {}

Created == pc = "created"

Concepts == Range(SIMPLE_EXTRACTORS_hooks)

\* the concept of a node: the last part of its type path
ConceptOf(node) == node.type[Len(node.type)]

HasField(node, field) == field \in DOMAIN node.obj

ExampleOptions == [obj |-> [name \in {"assets", "chunks"} |-> Bool(name = "assets")]]

\* C1: on every node of a concept of the catalog, the extractor registered
\* under option o has been applied iff o is "_" or Options[o] is truthy, for
\* the Options of the factory that built the node; the compilation node has
\* an assets (chunks) field iff Options.assets (Options.chunks) is truthy,
\* so Options = {assets: true, chunks: false} gives assets and no chunks.
C1_Gating ==
    Created =>
        /\ \A node \in NodesOf(report) :
              ConceptOf(node) \in Concepts =>
                 \A o \in Range(SIMPLE_EXTRACTORS_options[ConceptOf(node)]) :
                    (<<ConceptOf(node), o>> \in Range(node.applied))
                        <=> (o = "_" \/ Truthy(OptGet(node.by.options, o)))
        /\ HasField(report, "assets") <=> Truthy(OptGet(statsOptions, "assets"))
        /\ HasField(report, "chunks") <=> Truthy(OptGet(statsOptions, "chunks"))
        /\ statsOptions = ExampleOptions =>
              HasField(report, "assets") /\ ~HasField(report, "chunks")

C1_Witness ==
    /\ Created
    /\ statsOptions = ExampleOptions
    /\ HasField(report, "assets")
    /\ ~HasField(report, "chunks")
    /\ \E node \in NodesOf(report) :
          /\ ConceptOf(node) = "asset"
          /\ node.applied = <<<<"asset", "_">>>>

\* a falsy value that is present switches an extractor off, a truthy value
\* that is not a boolean switches it on
C1_WitnessLoose ==
    /\ Created
    /\ OptGet(statsOptions, "hash") = Num(0)
    /\ OptGet(statsOptions, "version") = Num(1)
    /\ ~HasField(report, "hash")
    /\ HasField(report, "version")

MergeCallDone == printCall.op = "mergeToObject" /\ printResult.done

ItemName(item) == item.obj["name"].str

\* C6: mergeToObject(items) has exactly one key per distinct item name, and
\* under each key the last item of that name; so with distinct names every
\* item is stored unchanged under its own name.
C6_MergeToObject ==
    MergeCallDone =>
        LET items == printCall.items.arr
            merged == printResult.value.obj
        IN /\ DOMAIN merged = {ItemName(items[i]) : i \in 1..Len(items)}
           /\ \A i \in 1..Len(items) :
                 (\A j \in (i + 1)..Len(items) : ItemName(items[j]) # ItemName(items[i]))
                     => merged[ItemName(items[i])] = items[i]
           /\ items = <<MergeItem("x", 1), MergeItem("y", 2)>> =>
                 /\ DOMAIN merged = {"x", "y"}
                 /\ merged["x"] = MergeItem("x", 1)
                 /\ merged["y"] = MergeItem("y", 2)

\* a name occurs twice and the later item is the one kept
C6_Witness ==
    /\ MergeCallDone
    /\ printCall.items.arr = <<MergeItem("x", 1), MergeItem("y", 2), MergeItem("x", 2)>>
    /\ DOMAIN printResult.value.obj = {"x", "y"}
    /\ printResult.value.obj["x"] = MergeItem("x", 2)

C6_WitnessDistinct ==
    /\ MergeCallDone
    /\ printCall.items.arr = <<MergeItem("x", 1), MergeItem("y", 2)>>
    /\ printResult.value.obj["x"] = MergeItem("x", 1)

CountFields ==
    {<<"assets", "filteredAssets">>, <<"modules", "filteredModules">>,
     <<"rootModules", "filteredRootModules">>}

\* C9: a filtered-count field equals the number of items handed to create()
\* minus the number of nodes create() returned, read from the field create()
\* filled, and is not negative; on the compilation node filteredAssets is
\* the number of assets the filter hooks rejected, so it is 0 for one asset
\* that is fully reported.
C9_FilteredCounts ==
    Created =>
        /\ \A node \in NodesOf(report) : \A pair \in CountFields :
              HasField(node, pair[2]) =>
                 /\ pair[2] \in DOMAIN node.requested
                 /\ HasField(node, pair[1])
                 /\ IsArray(node.obj[pair[1]])
                 /\ node.obj[pair[2]] =
                        Num(node.requested[pair[2]] - Len(node.obj[pair[1]].arr))
                 /\ node.obj[pair[2]].num >= 0
        /\ HasField(report, "filteredAssets") =>
              /\ report.requested["filteredAssets"] = Len(compilation.assets)
              /\ report.obj["filteredAssets"] =
                    Num(Cardinality({i \in 1..Len(compilation.assets) :
                                        compilation.assets[i].name \in filtered}))
        /\ (/\ Truthy(OptGet(statsOptions, "assets"))
            /\ Len(compilation.assets) = 1
            /\ compilation.assets[1].name \notin filtered)
              => /\ Len(report.obj["assets"].arr) = 1
                 /\ report.obj["filteredAssets"] = Num(0)

\* one asset and one module are filtered out and counted
C9_Witness ==
    /\ Created
    /\ HasField(report, "filteredAssets")
    /\ report.obj["filteredAssets"] = Num(1)
    /\ Len(report.obj["assets"].arr) = 1
    /\ \E node \in NodesOf(report) :
          /\ ConceptOf(node) = "chunk"
          /\ HasField(node, "filteredModules")
          /\ node.obj["filteredModules"] = Num(1)
          /\ HasField(node, "filteredRootModules")
          /\ node.obj["filteredRootModules"] = Num(0)

\* one asset, fully reported
C9_WitnessExample ==
    /\ Created
    /\ statsOptions = ExampleOptions
    /\ Len(compilation.assets) = 1
    /\ report.obj["filteredAssets"] = Num(0)
    /\ report.obj["assets"].arr[1].obj["name"] = Str("main.js")

ChildrenOption == OptGet(statsOptions, "children")

RootBy == [from |-> RootFrom, options |-> statsOptions]

\* the node that reports child i in the j-th list of the children field
ChildNode(j, i) == report.obj["children"].arr[j].arr[i]

ChildPositions ==
    {<<j, i>> \in (1..Len(compilation.children)) \X (1..Len(compilation.children)) :
        TRUE}

\* the node reports the child build session at position i
ReportsChild(node, i) ==
    /\ node.type = <<"compilation", "children[]", "compilation">>
    /\ (HasField(node, "hash") => node.obj["hash"] = Str(compilation.children[i].hash))
    /\ (HasField(node, "assets") =>
           node.obj["assets"].arr[1].obj["name"] =
               Str(compilation.children[i].assets[1].name))

\* C8: with Options.children an array, child i is reported by a factory
\* built from Options.children[i] when i is below the array's length and by
\* the parent's factory otherwise; with Options.children a single Options
\* object, every child is reported by the one factory built from it.  Every
\* child is reported in both cases.
C8_ChildFactories ==
    (Created /\ (IsArray(ChildrenOption) \/ IsObject(ChildrenOption))) =>
        /\ HasField(report, "children")
        /\ \A j \in 1..Len(report.obj["children"].arr) :
              Len(report.obj["children"].arr[j].arr) = Len(compilation.children)
        /\ \A pos \in ChildPositions :
              LET node == ChildNode(pos[1], pos[2])
                  i == pos[2]
              IN /\ ReportsChild(node, i)
                 /\ (IsArray(ChildrenOption) /\ i <= Len(ChildrenOption.arr)) =>
                       node.by =
                          [from |-> [kind |-> "children[]", index |-> i - 1,
                                     value |-> ChildrenOption.arr[i]],
                           options |-> ChildrenOption.arr[i]]
                 /\ (IsArray(ChildrenOption) /\ i > Len(ChildrenOption.arr)) =>
                       node.by = RootBy
                 /\ IsObject(ChildrenOption) =>
                       node.by =
                          [from |-> [kind |-> "children", index |-> -1,
                                     value |-> ChildrenOption],
                           options |-> ChildrenOption]

\* two children, per-child Options for the first only
C8_Witness ==
    /\ Created
    /\ IsArray(ChildrenOption)
    /\ Len(ChildrenOption.arr) = 1
    /\ Len(compilation.children) = 2
    /\ ChildNode(1, 1).by.options = ChildrenOption.arr[1]
    /\ ChildNode(1, 2).by = RootBy

C8_WitnessSingle ==
    /\ Created
    /\ IsObject(ChildrenOption)
    /\ Len(compilation.children) = 2
    /\ ChildNode(1, 1).by = ChildNode(1, 2).by
    /\ ChildNode(1, 1).by.options = ChildrenOption

Malformed(value) ==
    Truthy(value) /\ ~IsBool(value) /\ ~IsObject(value) /\ ~IsArray(value)

\* C10: with Options.children truthy but no boolean, object or array, the
\* factory is set up as with children = true: no child factory is created
\* from the value, and every child is reported by the parent's factory.
C10_MalformedAsTrue ==
    (pc \in {"tapped", "created"} /\ Malformed(ChildrenOption)) =>
        /\ [statsFactory EXCEPT !.options = statsOptions] =
              [statsFactoryTap(NewStatsFactory(RootFrom),
                               Put(statsOptions, "children", Bool(TRUE)))
               EXCEPT !.options = statsOptions]
        /\ statsFactory.childFactory = Undefined
        /\ Created =>
              /\ HasField(report, "children")
              /\ \A pos \in ChildPositions : ChildNode(pos[1], pos[2]).by = RootBy

\* C12: with Options.children truthy, the children field holds one report
\* node per child build session, in order: its length is the number of
\* children and its i-th entry is the report of child i, not a list.
C12_OneNodePerChild ==
    (Created /\ Truthy(ChildrenOption)) =>
        /\ HasField(report, "children")
        /\ IsArray(report.obj["children"])
        /\ Len(report.obj["children"].arr) = Len(compilation.children)
        /\ \A i \in 1..Len(compilation.children) :
              LET entry == report.obj["children"].arr[i]
              IN /\ IsObject(entry)
                 /\ ~IsArray(entry)
                 /\ ReportsChild(entry, i)

\* the names of the groups a field of the compilation node holds
GroupNamesIn(field) ==
    IF IsArray(report.obj[field])
    THEN {ItemName(report.obj[field].arr[i]) : i \in 1..Len(report.obj[field].arr)}
    ELSE DOMAIN report.obj[field].obj

NamesOf(groups) == {groups[i].name : i \in 1..Len(groups)}

\* C13: entrypoints, when present, holds the groups of
\* compilation.entrypoints and namedChunkGroups, when present, those of
\* compilation.namedChunkGroups; the chunkGroups option produces the
\* namedChunkGroups field and the entrypoints option the entrypoints field.
C13_ChunkGroupsField ==
    Created =>
        /\ HasField(report, "entrypoints") <=> Truthy(OptGet(statsOptions, "entrypoints"))
        /\ HasField(report, "namedChunkGroups")
              <=> Truthy(OptGet(statsOptions, "chunkGroups"))
        /\ HasField(report, "entrypoints") =>
              GroupNamesIn("entrypoints") = NamesOf(compilation.entrypoints)
        /\ HasField(report, "namedChunkGroups") =>
              GroupNamesIn("namedChunkGroups") = NamesOf(compilation.namedChunkGroups)

IssuerCallDone == printCall.op = "moduleExtractor" /\ printResult.done

IndexOfModule(name) == CHOOSE k \in 1..MaxModules : ModuleName(k) = name

\* C15: the list handed to create() for issuerPath holds every transitive
\* issuer once, the outermost first and the direct issuer last; issuerPath
\* is built only when there is a direct issuer, and issuer, issuerId and
\* issuerName describe the direct issuer.
C15_IssuerPath ==
    IssuerCallDone =>
        LET issuers == printCall.issuers
            k == printCall.module
            path == printResult.path
            node == printResult.value
            n == Len(path)
        IN /\ (n = 0) <=> (issuers[k] = 0)
           /\ IsDistinct(path)
           /\ n > 0 =>
                 /\ path[n] = ModuleName(issuers[k])
                 /\ issuers[IndexOfModule(path[1])] = 0
                 /\ \A i \in 1..(n - 1) :
                       path[i] = ModuleName(issuers[IndexOfModule(path[i + 1])])
                 /\ IsArray(node.obj["issuerPath"])
                 /\ Len(node.obj["issuerPath"].arr) = n
                 /\ \A i \in 1..n :
                       /\ node.obj["issuerPath"].arr[i].obj["name"] = Str(path[i])
                       /\ ConceptOf(node.obj["issuerPath"].arr[i]) = "moduleIssuer"
                 /\ node.obj["issuer"] = Str(ModuleIdentifier(issuers[k]))
                 /\ node.obj["issuerId"] = Num(issuers[k])
                 /\ node.obj["issuerName"] = Str(path[n])
           /\ n = 0 =>
                 /\ node.obj["issuerPath"] = Undefined
                 /\ node.obj["issuer"] = Undefined
                 /\ node.obj["issuerId"] = Undefined
                 /\ node.obj["issuerName"] = Undefined

\* a chain of three issuers
C15_Witness ==
    /\ IssuerCallDone
    /\ printCall.module = 4
    /\ printResult.path = <<ModuleName(1), ModuleName(2), ModuleName(3)>>
    /\ printResult.value.obj["issuerName"] = Str(ModuleName(3))
    /\ Len(printResult.value.obj["issuerPath"].arr) = 3

C15_WitnessNoIssuer ==
    /\ IssuerCallDone
    /\ printCall.issuers[printCall.module] = 0
    /\ printResult.value.obj["issuerPath"] = Undefined

----------------------------------------------------------------------------
(* Properties of StatsPrinter.print with the group printers                *)

PrintCallDone == printCall.op = "print" /\ printResult.done

Contains(s, sub) ==
    \E i \in 1..(Len(s) - Len(sub) + 1) : Slice(s, i, i + Len(sub) - 1) = sub

GroupFields == {"entrypoints", "namedChunkGroups"}

KindOf(field) == IF field = "entrypoints" THEN "Entrypoint" ELSE "ChunkGroup"

PrintedFields == Range(printCall.object.keys)

\* the field holds a mapping (after the merge), not a list
IsMerged(field) ==
    field \in PrintedFields /\ IsPrintObject(printCall.object.val[field])

\* the call was made under the nested print of the field's printer
NestedUnder(call, field) ==
    /\ IsMerged(field)
    /\ Len(call.type) >= 2
    /\ call.type[2] \in {field, field \o "[]"}
    /\ call.stack >= 3

\* C11: a group printer leaves its caller's context as it found it (no
\* chunkGroupKind added, every entry unchanged); the kind is seen by the
\* calls under that printer's nested print only, so the rendering of a
\* field never holds the kind of the other printer and the rendering of a
\* sibling holds no kind.
C11_KindStaysLocal ==
    PrintCallDone =>
        /\ \A i \in 1..Len(printResult.taps) :
              LET tap == printResult.taps[i]
              IN /\ tap.after = tap.before
                 /\ DOMAIN tap.after = DOMAIN tap.before
                 /\ (~tap.isArray) => "chunkGroupKind" \notin DOMAIN tap.after
        /\ \A i \in 1..Len(printResult.calls) :
              LET call == printResult.calls[i]
              IN /\ call.kind =
                       (IF NestedUnder(call, "entrypoints") THEN Str("Entrypoint")
                        ELSE IF NestedUnder(call, "namedChunkGroups")
                        THEN Str("ChunkGroup")
                        ELSE Undefined)
                 /\ (call.stack = 2 /\ IsStr(call.content)) =>
                       \A field \in GroupFields :
                          Contains(call.content.str, KindOf(field)) =>
                             (call.type = <<"compilation", field>> /\ IsMerged(field))
        /\ \A field \in GroupFields :
              (IsMerged(field) /\ Len(printCall.object.val[field].keys) > 0) =>
                 \E i \in 1..Len(printResult.calls) :
                    /\ printResult.calls[i].type = <<"compilation", field>>
                    /\ printResult.calls[i].stack = 2
                    /\ Contains(printResult.calls[i].content.str, KindOf(field))

\* both printers run on mappings, next to a sibling field
C11_Witness ==
    /\ PrintCallDone
    /\ printCall.object.keys = <<"namedChunkGroups", "entrypoints", "hash">>
    /\ IsMerged("entrypoints") /\ IsMerged("namedChunkGroups")
    /\ Len(printCall.object.val["entrypoints"].keys) = 2
    /\ Len(printCall.object.val["namedChunkGroups"].keys) = 1
    /\ IsStr(printResult.value)
    /\ Contains(printResult.value.str, "Entrypoint")
    /\ Contains(printResult.value.str, "ChunkGroup")
    /\ Len(printResult.taps) = 4

TapsOf(field) == SelectSeq(printResult.taps, LAMBDA tap : tap.key = field)

CallsOf(field) ==
    SelectSeq(printResult.calls, LAMBDA call : call.type = <<"compilation", field>>)

\* C14: printing ends without exhausting the stack; for a mapping the
\* printer is called twice, first on the mapping, where it makes its one
\* nested print call, then on the array of the values, where it returns
\* undefined and prints nothing again; for a list it is called once and
\* makes no nested call.
C14_NestedPrintOnce ==
    PrintCallDone =>
        /\ ~HasThrown(printResult.value)
        /\ \A field \in GroupFields :
              IF IsMerged(field)
              THEN /\ Len(TapsOf(field)) = 2
                   /\ ~TapsOf(field)[1].isArray /\ TapsOf(field)[1].nested
                   /\ TapsOf(field)[2].isArray /\ ~TapsOf(field)[2].nested
                   /\ TapsOf(field)[2].content = Undefined
                   /\ Len(CallsOf(field)) = 2
                   /\ ~CallsOf(field)[1].isArray /\ CallsOf(field)[1].stack = 2
                   /\ CallsOf(field)[2].isArray /\ CallsOf(field)[2].stack = 3
              ELSE IF field \in PrintedFields
              THEN /\ Len(TapsOf(field)) = 1
                   /\ ~TapsOf(field)[1].nested
                   /\ Len(CallsOf(field)) = 1
              ELSE Len(TapsOf(field)) = 0 /\ Len(CallsOf(field)) = 0

\* a mapping of two groups: one nested call, not one per group
C14_Witness ==
    /\ PrintCallDone
    /\ IsMerged("entrypoints")
    /\ Len(printCall.object.val["entrypoints"].keys) = 2
    /\ Len(TapsOf("entrypoints")) = 2
    /\ TapsOf("entrypoints")[1].nested
    /\ ~TapsOf("entrypoints")[2].nested
    /\ IsStr(printResult.value)

====
